---- MODULE Spec2Model ----
(***************************************************************************)
(* A model of budget.py: the Category ledger (deposit, withdraw, transfer, *)
(* check_funds, get_balance, __str__) and create_spend_chart with its      *)
(* helpers.                                                                *)
(*                                                                         *)
(* Numbers.  budget.py's Number is int or float.  An amount is modelled    *)
(* as an integer count of 1/Scale units (Scale = 2: halves).  Every        *)
(* multiple of 0.5 of the sizes used here is an exact IEEE double and so   *)
(* are the sums and negations of such values, so ledger arithmetic in      *)
(* Python is exact on them.  An amount with an odd count of halves is a    *)
(* Python float; a whole amount is a Python int.  The one place where      *)
(* double rounding is visible, value / total * 100, is modelled bit-exactly*)
(* by IntOfRatioTimes100 below.                                            *)
(*                                                                         *)
(* Text.  A str is a sequence of one-character strings.                    *)
(*                                                                         *)
(* Exceptions.  A call's outcome is a record [exc, value]: exc = "" when   *)
(* the call returned value, otherwise the name of the exception raised.    *)
(***************************************************************************)
EXTENDS Integers, Sequences, FiniteSets, TLC

VARIABLES
    category_name,  \* category_name[c]: the name Category c was constructed with
    ledger,         \* ledger[c]: Category c's list of {amount, description} entries
    pre,            \* the ledgers as they were when the last call was made
    call,           \* the last call: [op, args]
    result          \* its outcome: [exc, value]

vars == <<category_name, ledger, pre, call, result>>

----------------------------------------------------------------------------
(* Units, bounds and input sets *)

\* An amount a stands for the number a / Scale.
Scale == 2

\* The total number of ledger entries over all categories.
MaxEntries == 3

Cats == {1, 2}

Food == <<"F", "o", "o", "d">>
Clothing == <<"C", "l", "o", "t", "h", "i", "n", "g">>
Groceries == <<"g", "r", "o", "c", "e", "r", "i", "e", "s">>

\* -1.0 and 1.5
Amounts == {-2, 3}
Descriptions == {<<>>, Groceries}

----------------------------------------------------------------------------
(* Python helpers *)

Return(v) == [exc |-> "", value |-> v]
Raise(e) == [exc |-> e, value |-> "None"]

Min(a, b) == IF a <= b THEN a ELSE b
Max(a, b) == IF a >= b THEN a ELSE b

\* seq * n for a one-element list or str: empty when n <= 0.
Repeat(ch, n) == [i \in 1..Max(n, 0) |-> ch]

\* int(a / b) for b > 0: truncation toward zero.
IntDiv(a, b) == IF a >= 0 THEN a \div b ELSE -((-a) \div b)

RECURSIVE SumSeq(_)
SumSeq(s) == IF s = <<>> THEN 0 ELSE SumSeq(SubSeq(s, 1, Len(s) - 1)) + s[Len(s)]

\* reduce(add, s): a left fold with no initial value.
ReduceAdd(s) == IF s = <<>> THEN Raise("TypeError") ELSE Return(SumSeq(s))

RECURSIVE MaxSeq(_)
MaxSeq(s) == IF Len(s) = 1 THEN s[1] ELSE Max(MaxSeq(SubSeq(s, 1, Len(s) - 1)), s[Len(s)])

\* reduce(max, s): a left fold with no initial value.
ReduceMax(s) == IF s = <<>> THEN Raise("TypeError") ELSE Return(MaxSeq(s))

TotalEntries(L) == SumSeq([c \in 1..Cardinality(Cats) |-> Len(L[c])])

----------------------------------------------------------------------------
(* class Category *)

Entry(amount, description) == [amount |-> amount, description |-> description]

AmountsOf(l) == [i \in 1..Len(l) |-> l[i].amount]

get_balance(l) == ReduceAdd(AmountsOf(l))

check_funds(l, amount) ==
    LET b == get_balance(l)
    IN  IF b.exc # "" THEN b ELSE Return(amount <= b.value)

\* A deposit that inserts the entry at the head of the list.
deposit_prepend(L, self, amount, description) ==
    [L EXCEPT ![self] = <<Entry(amount, description)>> \o @]

\* The ledgers after self.deposit(amount, description).
deposit(L, self, amount, description) ==
    [L EXCEPT ![self] = Append(@, Entry(amount, description))]

\* [ledger, exc, value]: the ledgers after self.withdraw(amount, description)
\* and the call's outcome.
withdraw(L, self, amount, description) ==
    LET f == check_funds(L[self], amount)
    IN  IF f.exc # ""
        THEN [ledger |-> L, exc |-> f.exc, value |-> "None"]
        ELSE IF f.value
             THEN [ledger |-> [L EXCEPT ![self] = Append(@, Entry(amount * (-1), description))],
                   exc |-> "", value |-> TRUE]
             ELSE [ledger |-> L, exc |-> "", value |-> FALSE]

TransferTo(name) == <<"T", "r", "a", "n", "s", "f", "e", "r", " ", "t", "o", " ">> \o name
TransferFrom(name) == <<"T", "r", "a", "n", "s", "f", "e", "r", " ", "f", "r", "o", "m", " ">> \o name

\* [ledger, exc, value]: the ledgers after self.transfer(amount, category)
\* and the call's outcome.  category may be self.
transfer(L, names, self, amount, category) ==
    LET w == withdraw(L, self, amount, TransferTo(names[category]))
    IN  IF w.exc # ""
        THEN w
        ELSE IF w.value
             THEN [ledger |-> deposit(w.ledger, category, amount, TransferFrom(names[self])),
                   exc |-> "", value |-> TRUE]
             ELSE [ledger |-> w.ledger, exc |-> "", value |-> FALSE]

\* str(n) for an int n >= 0.
RECURSIVE Digits(_)
Digits(n) ==
    LET d == <<"0", "1", "2", "3", "4", "5", "6", "7", "8", "9">>
    IN  IF n < 10 THEN <<d[n + 1]>> ELSE Digits(n \div 10) \o <<d[(n % 10) + 1]>>

Abs(a) == IF a < 0 THEN -a ELSE a
Sign(a) == IF a < 0 THEN <<"-">> ELSE <<>>

\* f"{amount:.2f}": the integer part, a point and two decimals (an amount is a
\* count of 1/Scale units, so the decimals are exact and no rounding occurs).
FormatFixed2(a) ==
    LET cents == ((Abs(a) % Scale) * 100) \div Scale
    IN  Sign(a) \o Digits(Abs(a) \div Scale) \o <<".">> \o Digits(cents \div 10) \o Digits(cents % 10)

\* f"{amount}": str() of an int, or the shortest repr of a float k or k + 0.5.
FormatNumber(a, isFloat) ==
    Sign(a) \o Digits(Abs(a) \div Scale)
        \o (IF isFloat THEN <<".">> \o Digits(((Abs(a) % Scale) * 10) \div Scale) ELSE <<>>)

\* Whether reduce(add, amounts) is a float: some amount is one.
IsFloat(l) == \E i \in 1..Len(l) : l[i].amount % Scale # 0

format_header(name) ==
    LET left_star_multiplier == IntDiv(30 - Len(name), 2)
        right_star_multiplier == 30 - Len(name) - left_star_multiplier
    IN  Repeat("*", left_star_multiplier) \o name \o Repeat("*", right_star_multiplier)

format_ledger_entry(entry) ==
    LET description == SubSeq(entry.description, 1, Min(23, Len(entry.description)))
        amount == FormatFixed2(entry.amount)
        space_multiplier == 30 - Len(amount) - Len(description)
    IN  description \o Repeat(" ", space_multiplier) \o amount

format_total(amount) == <<"T", "o", "t", "a", "l", ":", " ">> \o amount

RECURSIVE EntryLines(_)
EntryLines(l) ==
    IF l = <<>> THEN <<>>
    ELSE EntryLines(SubSeq(l, 1, Len(l) - 1)) \o format_ledger_entry(l[Len(l)]) \o <<"\n">>

\* Category.__str__
__str__(name, l) ==
    LET b == get_balance(l)
    IN  IF b.exc # "" THEN b
        ELSE Return(format_header(name) \o <<"\n">> \o EntryLines(l)
                        \o format_total(FormatNumber(b.value, IsFloat(l))))

----------------------------------------------------------------------------
(* create_spend_chart and its helpers *)

_calculate_category_withdraw(l) ==
    SumSeq([i \in 1..Len(l) |-> IF l[i].amount < 0 THEN l[i].amount * (-1) ELSE 0])

\* 2^n mod m, by repeated squaring (m below 2^15).
RECURSIVE Pow2Mod(_, _)
Pow2Mod(n, m) ==
    IF n = 0 THEN 1 % m
    ELSE LET h == Pow2Mod(n \div 2, m)
         IN  (((h * h) % m) * (IF n % 2 = 1 THEN 2 ELSE 1)) % m

\* The e >= 0 with b * 2^e <= a < b * 2^(e+1), for a >= b > 0.
RECURSIVE Log2Up(_, _)
Log2Up(a, b) == IF 2 * b <= a THEN 1 + Log2Up(a, 2 * b) ELSE 0

\* The j >= 1 with a * 2^(j-1) < b <= a * 2^j, for 0 < a < b.
RECURSIVE Log2Down(_, _)
Log2Down(a, b) == IF 2 * a >= b THEN 1 ELSE 1 + Log2Down(2 * a, b)

(***************************************************************************)
(* int(value / total * 100) in IEEE double arithmetic, for value >= 0 and  *)
(* total > 0 given in the same unit (exact doubles; total below 2^15).     *)
(*                                                                         *)
(* Let q = value / total with 2^e <= q < 2^(e+1).  The division rounds q   *)
(* to x = M * 2^(e-52), M the integer nearest to q * 2^(52-e); with        *)
(* r = value * 2^(52-e) mod total, x is below q exactly when               *)
(* 0 < 2r < total, by (r / total) * 2^(e-52).  The product 100 * x is then *)
(* rounded to a double y and int() truncates it.                           *)
(*  - If 100 * q is not an integer it is at least 1 / total away from one, *)
(*    far more than the two rounding errors, and int(y) = floor(100 * q).  *)
(*  - If 100 * q = N is an integer and x >= q, then y >= N and int(y) = N. *)
(*  - If 100 * q = N and x < q, the exact product is N - eps with          *)
(*    eps = 100 * (r / total) * 2^(e-52).  It rounds to N unless eps is    *)
(*    more than half the spacing of the doubles just below N, which is     *)
(*    2^(e-46) when N <= 128 * 2^e and 2^(e-45) otherwise: that is, unless *)
(*    N <= 128 * 2^e and 25 * r > 8 * total.  Then y < N and int(y) = N-1. *)
(* Example: 23 / 10 * 100 is 229.99999999999997.                           *)
(***************************************************************************)
IntOfRatioTimes100(value, total) ==
    IF value = 0 THEN 0
    ELSE LET e == IF value >= total THEN Log2Up(value, total) ELSE -Log2Down(value, total)
             an == IF e >= 0 THEN value ELSE value * 2^(-e)
             bn == IF e >= 0 THEN total * 2^e ELSE total
             r == ((value % total) * Pow2Mod(52 - e, total)) % total
             below == /\ (100 * value) % total = 0
                      /\ 0 < r /\ 2 * r < total
                      /\ 100 * an <= 128 * bn
                      /\ 25 * r > 8 * total
         IN  ((100 * value) \div total) - (IF below THEN 1 ELSE 0)

\* int(math.floor(value * 0.1) / 0.1) for an int value >= 0.  For every value
\* below 100000 the double computation yields exactly this integer.
_round_down_nearest_ten(value) == (value \div 10) * 10

_resolve_percentage(value, total) ==
    IF total = 0 THEN Raise("ZeroDivisionError")
    ELSE Return(_round_down_nearest_ten(IntOfRatioTimes100(value, total)))

_format_y_labels(longest_category_name) ==
    << <<"1">> \o Repeat(" ", 11 + longest_category_name),
       <<"0", "9", "8", "7", "6", "5", "4", "3", "2", "1", " ", " ">>
           \o Repeat(" ", longest_category_name),
       Repeat("0", 11) \o Repeat(" ", 1 + longest_category_name),
       Repeat("|", 11) \o Repeat(" ", 1 + longest_category_name) >>

\* A blank column with one cell too many above the baseline.
_format_blank_columm_long(longest_category_name) ==
    << Repeat(" ", 12) \o <<"-">> \o Repeat(" ", longest_category_name) >>

_format_blank_columm(longest_category_name) ==
    << Repeat(" ", 11) \o <<"-">> \o Repeat(" ", longest_category_name) >>

_format_category_column(longest_category_name, name, category_percentage) ==
    LET top_fillers == Repeat(" ", 10 - category_percentage \div 10)
        o_fillers == Repeat("o", category_percentage \div 10 + 1)
        bottom_fillers == Repeat(" ", longest_category_name - Len(name))
    IN  << top_fillers \o o_fillers \o <<"-">> \o name \o bottom_fillers >>
            \o _format_blank_columm(longest_category_name)
            \o _format_blank_columm(longest_category_name)

\* The columns of the first k categories, in order.
RECURSIVE CategoryColumns(_, _, _, _, _)
CategoryColumns(names, categories, y_length, withdraw_percents, k) ==
    IF k = 0 THEN <<>>
    ELSE CategoryColumns(names, categories, y_length, withdraw_percents, k - 1)
            \o _format_category_column(y_length, names[categories[k]], withdraw_percents[k])

\* Rows 1..k of the grid, each followed by a line break.
RECURSIVE SerializeRows(_, _)
SerializeRows(string_list, k) ==
    IF k = 0 THEN <<>>
    ELSE SerializeRows(string_list, k - 1)
            \o [j \in 1..Len(string_list) |-> string_list[j][k]] \o <<"\n">>

\* str.rstrip()
RECURSIVE rstrip(_)
rstrip(s) ==
    IF s # <<>> /\ s[Len(s)] \in {" ", "\n"} THEN rstrip(SubSeq(s, 1, Len(s) - 1)) ELSE s

Title ==
    <<"P", "e", "r", "c", "e", "n", "t", "a", "g", "e", " ", "s", "p", "e", "n", "t", " ",
      "b", "y", " ", "c", "a", "t", "e", "g", "o", "r", "y">>

\* The local variables of create_spend_chart(categories), for a non-empty list,
\* and exc: the exception that ends the call early ("" when it returns).
ChartLocals(names, L, categories) ==
    LET n == Len(categories)
        y_length == ReduceMax([i \in 1..n |-> Len(names[categories[i]])]).value
        category_withdraw == [i \in 1..n |-> _calculate_category_withdraw(L[categories[i]])]
        total_withdraw == IntDiv(SumSeq(category_withdraw), Scale)
        percents ==
            [i \in 1..n |-> _resolve_percentage(category_withdraw[i], total_withdraw * Scale)]
        withdraw_percents == [i \in 1..n |-> percents[i].value]
        string_list ==
            _format_y_labels(y_length) \o _format_blank_columm(y_length)
                \o CategoryColumns(names, categories, y_length, withdraw_percents, n)
        rows == y_length + 12
    IN  IF percents[1].exc # ""
        THEN [exc |-> percents[1].exc,
              y_length |-> y_length,
              category_withdraw |-> category_withdraw,
              total_withdraw |-> total_withdraw]
        ELSE IF \E j \in 1..Len(string_list) : Len(string_list[j]) < rows
        THEN [exc |-> "IndexError",
              y_length |-> y_length,
              category_withdraw |-> category_withdraw,
              total_withdraw |-> total_withdraw,
              withdraw_percents |-> withdraw_percents,
              string_list |-> string_list,
              rows |-> rows]
        ELSE [exc |-> "",
              y_length |-> y_length,
              category_withdraw |-> category_withdraw,
              total_withdraw |-> total_withdraw,
              withdraw_percents |-> withdraw_percents,
              string_list |-> string_list,
              rows |-> rows,
              ret_val |-> Title \o <<"\n">> \o SerializeRows(string_list, rows)]

create_spend_chart(names, L, categories) ==
    IF ReduceMax([i \in 1..Len(categories) |-> Len(names[categories[i]])]).exc # ""
    THEN Raise("TypeError")
    ELSE LET locals == ChartLocals(names, L, categories)
         IN  IF locals.exc # "" THEN Raise(locals.exc)
             ELSE Return(rstrip(locals.ret_val) \o <<" ", " ">>)

----------------------------------------------------------------------------
(* The calls *)

Init ==
    /\ category_name = [c \in Cats |-> IF c = 1 THEN Food ELSE Clothing]
    /\ ledger = [c \in Cats |-> <<>>]
    /\ pre = ledger
    /\ call = [op |-> "__init__", args |-> <<>>]
    /\ result = Return("None")

Deposit(self, amount, description) ==
    /\ ledger' = deposit(ledger, self, amount, description)
    /\ pre' = ledger
    /\ call' = [op |-> "deposit", args |-> <<self, amount, description>>]
    /\ result' = Return("None")
    /\ UNCHANGED category_name

Withdraw(self, amount, description) ==
    LET w == withdraw(ledger, self, amount, description)
    IN  /\ ledger' = w.ledger
        /\ pre' = ledger
        /\ call' = [op |-> "withdraw", args |-> <<self, amount, description>>]
        /\ result' = [exc |-> w.exc, value |-> w.value]
        /\ UNCHANGED category_name

Transfer(self, amount, category) ==
    LET t == transfer(ledger, category_name, self, amount, category)
    IN  /\ ledger' = t.ledger
        /\ pre' = ledger
        /\ call' = [op |-> "transfer", args |-> <<self, amount, category>>]
        /\ result' = [exc |-> t.exc, value |-> t.value]
        /\ UNCHANGED category_name

CheckFunds(self, amount) ==
    /\ pre' = ledger
    /\ call' = [op |-> "check_funds", args |-> <<self, amount>>]
    /\ result' = check_funds(ledger[self], amount)
    /\ UNCHANGED <<category_name, ledger>>

GetBalance(self) ==
    /\ pre' = ledger
    /\ call' = [op |-> "get_balance", args |-> <<self>>]
    /\ result' = get_balance(ledger[self])
    /\ UNCHANGED <<category_name, ledger>>

Str(self) ==
    /\ pre' = ledger
    /\ call' = [op |-> "__str__", args |-> <<self>>]
    /\ result' = __str__(category_name[self], ledger[self])
    /\ UNCHANGED <<category_name, ledger>>

CreateSpendChart(categories) ==
    /\ pre' = ledger
    /\ call' = [op |-> "create_spend_chart", args |-> <<categories>>]
    /\ result' = create_spend_chart(category_name, ledger, categories)
    /\ UNCHANGED <<category_name, ledger>>

ResolvePercentage(value, total) ==
    /\ pre' = ledger
    /\ call' = [op |-> "_resolve_percentage", args |-> <<value, total>>]
    /\ result' = _resolve_percentage(value, total)
    /\ UNCHANGED <<category_name, ledger>>


\* The ledgers hold at most n entries in all after the step.
Within(n) == TotalEntries(ledger') <= n

Next ==
    \/ \E self \in Cats, amount \in Amounts, description \in Descriptions :
          Deposit(self, amount, description) /\ Within(MaxEntries)
    \/ \E self \in Cats, amount \in Amounts, description \in Descriptions :
          Withdraw(self, amount, description) /\ Within(MaxEntries)
    \/ \E self \in Cats, amount \in Amounts, category \in Cats :
          Transfer(self, amount, category) /\ Within(MaxEntries)
    \/ \E self \in Cats, amount \in Amounts : CheckFunds(self, amount)
    \/ \E self \in Cats : GetBalance(self)

Spec == Init /\ [][Next]_vars

\* Deposits and balance queries only: every ledger is the result of a sequence
\* of deposit calls on a newly created category.
NextDeposits ==
    \/ \E self \in Cats, amount \in Amounts, description \in Descriptions :
          Deposit(self, amount, description) /\ Within(MaxEntries)
    \/ \E self \in Cats : GetBalance(self)

SpecDeposits == Init /\ [][NextDeposits]_vars

----------------------------------------------------------------------------
(* Rendering a category: names and amounts that exercise the layout *)

Entertainment == <<"E", "n", "t", "e", "r", "t", "a", "i", "n", "m", "e", "n", "t">>
LongName == Repeat("x", 31)

StrNames == {Clothing, Entertainment, LongName}
\* 1.5, -1.0 and 10000.0
StrAmounts == {3, -2, 20000}

InitStr ==
    /\ category_name \in {n \in [Cats -> StrNames \cup {Food}] : n[1] = Food}
    /\ ledger = [c \in Cats |-> <<>>]
    /\ pre = ledger
    /\ call = [op |-> "__init__", args |-> <<>>]
    /\ result = Return("None")

NextStr ==
    \/ \E self \in Cats, amount \in StrAmounts, description \in Descriptions :
          Deposit(self, amount, description) /\ Within(MaxEntries)
    \/ \E self \in Cats, amount \in StrAmounts, category \in Cats :
          Transfer(self, amount, category) /\ Within(MaxEntries)
    \/ \E self \in Cats : Str(self)

SpecStr == InitStr /\ [][NextStr]_vars

----------------------------------------------------------------------------
(* Charting: deposits, withdrawals and charts of up to MaxChart categories *)

MaxChart == 2
MaxChartEntries == 4

\* 20.0
ChartDeposits == {40}
\* 1.0, 1.5 and 7.0
ChartWithdrawals == {2, 3, 14}

RECURSIVE SeqsUpTo(_, _)
SeqsUpTo(S, n) ==
    IF n = 0 THEN {<<>>}
    ELSE LET shorter == SeqsUpTo(S, n - 1)
         IN  shorter \cup {Append(q, x) : q \in {t \in shorter : Len(t) = n - 1}, x \in S}

NextChart ==
    \/ \E self \in Cats, amount \in ChartDeposits :
          Deposit(self, amount, <<>>) /\ Within(MaxChartEntries)
    \/ \E self \in Cats, amount \in ChartWithdrawals :
          Withdraw(self, amount, <<>>) /\ Within(MaxChartEntries)
    \/ \E categories \in SeqsUpTo(Cats, MaxChart) : CreateSpendChart(categories)

SpecChart == Init /\ [][NextChart]_vars

----------------------------------------------------------------------------
(* The percentage function on its own *)

MaxValue == 250
MaxTotal == 110

\* One call, from the initial state.
NextPercentage ==
    /\ call.op = "__init__"
    /\ \E value \in 0..MaxValue, total \in 0..MaxTotal : ResolvePercentage(value, total)

SpecPercentage == Init /\ [][NextPercentage]_vars

----------------------------------------------------------------------------
(* The ledger claims *)

\* The balance of a ledger: the sum of its entries' amounts, 0 when it has none.
Balance(l) == SumSeq(AmountsOf(l))

IsPrefix(s, t) == Len(s) <= Len(t) /\ SubSeq(t, 1, Len(s)) = s

\* C1: withdraw(amount) returns True iff amount <= balance at call time; on
\* True exactly one entry with amount -amount (and the description) is appended
\* and the balance decreases by exactly amount; on False no ledger changes.
C1_WithdrawContract ==
    call.op = "withdraw" =>
        LET self == call.args[1]
            amount == call.args[2]
            description == call.args[3]
        IN  /\ result.exc = ""
            /\ result.value = (amount <= Balance(pre[self]))
            /\ result.value =>
                  /\ ledger = [pre EXCEPT ![self] = Append(@, Entry(-amount, description))]
                  /\ Balance(ledger[self]) = Balance(pre[self]) - amount
            /\ ~result.value => ledger = pre

\* C2: transfer(amount, target) returns True iff amount <= source balance; on
\* True the source balance decreases by amount, the target balance increases by
\* amount and the sum of the two is conserved; on False no ledger changes.
C2_TransferContract ==
    call.op = "transfer" =>
        LET self == call.args[1]
            amount == call.args[2]
            target == call.args[3]
        IN  /\ result.exc = ""
            /\ result.value = (amount <= Balance(pre[self]))
            /\ result.value =>
                  /\ Balance(ledger[self]) = Balance(pre[self]) - amount
                  /\ Balance(ledger[target]) = Balance(pre[target]) + amount
                  /\ Balance(ledger[self]) + Balance(ledger[target])
                        = Balance(pre[self]) + Balance(pre[target])
            /\ ~result.value => ledger = pre

\* The categories a withdraw or transfer call involves.
Involved == IF call.op = "transfer" THEN {call.args[1], call.args[3]} ELSE {call.args[1]}

\* C3: a withdraw or transfer call whose categories all had a non-negative
\* balance before it leaves each of them with a non-negative balance.
C3_BalanceNeverNegative ==
    (call.op \in {"withdraw", "transfer"} /\ \A c \in Involved : Balance(pre[c]) >= 0)
        => \A c \in Involved : Balance(ledger[c]) >= 0

\* C4: after any sequence of deposits on a new category (the empty one too)
\* get_balance() returns the sum of the deposited amounts, and every deposit
\* succeeds and appends exactly one entry carrying the given amount.
C4_DepositsSum ==
    /\ call.op = "get_balance" =>
          /\ result.exc = ""
          /\ result.value = Balance(ledger[call.args[1]])
    /\ call.op = "deposit" =>
          /\ result.exc = ""
          /\ ledger = [pre EXCEPT ![call.args[1]] = Append(@, Entry(call.args[2], call.args[3]))]

\* C9: ledgers are append-only.  Whatever the call, every ledger as it was
\* before the call is a prefix of the ledger after it; check_funds and
\* get_balance change no ledger; and a category that is neither the receiver
\* nor the transfer target of the call keeps its ledger.
C9_AppendOnly ==
    /\ \A c \in Cats : IsPrefix(pre[c], ledger[c])
    /\ call.op \in {"check_funds", "get_balance"} => ledger = pre
    /\ call.op \in {"deposit", "withdraw", "transfer", "check_funds", "get_balance"} =>
          \A c \in Cats :
              (c # call.args[1] /\ ~(call.op = "transfer" /\ c = call.args[3]))
                  => ledger[c] = pre[c]

\* A successful transfer from a category that held entries to another one: one
\* entry is appended to each of the two ledgers, behind the entries it held.
C9_Witness ==
    /\ call.op = "transfer"
    /\ result.exc = ""
    /\ result.value
    /\ call.args[1] # call.args[3]
    /\ pre[call.args[1]] # <<>>
    /\ Len(ledger[call.args[1]]) = Len(pre[call.args[1]]) + 1
    /\ Len(ledger[call.args[3]]) = Len(pre[call.args[3]]) + 1

----------------------------------------------------------------------------
(* The rendering claims *)

\* The lines of a text: its pieces between line breaks.
RECURSIVE SplitLines(_)
SplitLines(s) ==
    IF \A i \in 1..Len(s) : s[i] # "\n" THEN <<s>>
    ELSE LET k == CHOOSE i \in 1..Len(s) : s[i] = "\n" /\ \A j \in 1..(i - 1) : s[j] # "\n"
         IN  <<SubSeq(s, 1, k - 1)>> \o SplitLines(SubSeq(s, k + 1, Len(s)))

\* C7: in the text __str__ returns, the header line is exactly 30 characters
\* wide and so is each ledger line, whatever the name and the ledger.
C7_LinesAre30Wide ==
    (call.op = "__str__" /\ result.exc = "") =>
        LET lines == SplitLines(result.value)
            entries == Len(ledger[call.args[1]])
        IN  /\ Len(lines) = entries + 2
            /\ Len(lines[1]) = 30
            /\ \A i \in 2..(entries + 1) : Len(lines[i]) = 30

\* The call was create_spend_chart on a non-empty list of categories.
ChartCalled == call.op = "create_spend_chart" /\ call.args[1] # <<>>

\* The local variables of that call.
Chart == ChartLocals(category_name, ledger, call.args[1])

\* The length of the longest name among the charted categories.
LongestName ==
    LET lens == {Len(category_name[call.args[1][i]]) : i \in 1..Len(call.args[1])}
    IN  CHOOSE m \in lens : \A k \in lens : k <= m

\* C5: create_spend_chart on a single category without withdrawals (the total
\* withdrawal is zero) does not fail and gives the category the percentage 0.
C5_ZeroTotalDefined ==
    (/\ ChartCalled
     /\ Len(call.args[1]) = 1
     /\ \A i \in 1..Len(ledger[call.args[1][1]]) : ledger[call.args[1][1]][i].amount >= 0)
        => /\ result.exc = ""
           /\ Chart.withdraw_percents = <<0>>

\* C6: for value >= 0 and total > 0, _resolve_percentage(value, total) is
\* floor(value / total * 100) rounded down to a multiple of 10; (30, 100) gives
\* 30, (47, 100) gives 40 and (0, 100) gives 0.
C6_PercentageRounding ==
    (call.op = "_resolve_percentage" /\ call.args[1] >= 0 /\ call.args[2] > 0) =>
        /\ result.exc = ""
        /\ result.value = (((call.args[1] * 100) \div call.args[2]) \div 10) * 10
        /\ call.args = <<30, 100>> => result.value = 30
        /\ call.args = <<47, 100>> => result.value = 40
        /\ call.args = <<0, 100>> => result.value = 0

ContentOf(j) == IF j > 5 /\ (j - 5) % 3 = 1 THEN (j - 5) \div 3 + 1 ELSE 0

RECURSIVE Run(_, _, _)
Run(col, k, ch) == IF k <= Len(col) /\ col[k] = ch THEN 1 + Run(col, k + 1, ch) ELSE 0

\* C10: when the truncated total withdrawal is positive every percentage is a
\* multiple of 10 in 0..100, the percentages sum to at most 100, and in each
\* content column the blank count 10 - p/10 and the bar count p/10 + 1 are
\* non-negative and add up to 11.
C10_PercentagesInRange ==
    (ChartCalled /\ Chart.total_withdraw > 0) =>
        LET c == Chart
        IN  /\ result.exc = ""
            /\ \A i \in 1..Len(call.args[1]) :
                  LET p == c.withdraw_percents[i]
                      col == c.string_list[5 + 3 * (i - 1) + 1]
                      blanks == Run(col, 1, " ")
                      bars == Run(col, blanks + 1, "o")
                  IN  /\ p % 10 = 0 /\ 0 <= p /\ p <= 100
                      /\ 10 - p \div 10 >= 0 /\ blanks = 10 - p \div 10
                      /\ p \div 10 + 1 >= 0 /\ bars = p \div 10 + 1
                      /\ blanks + bars = 11
            /\ SumSeq(c.withdraw_percents) <= 100

====
